---- MODULE Spec2Model ----
(***************************************************************************)
(* A model of scripts/hl7v2-inspect.py: the message extractor and the four *)
(* views (Structure, Values, Field, Verify) behind main().                 *)
(*                                                                         *)
(* Input text is a sequence of one-character strings, so that split,       *)
(* strip, startswith and indexing are computed as Python computes them.    *)
(* Printed text is a sequence of strings, one per print() call.            *)
(***************************************************************************)
EXTENDS Integers, Sequences, FiniteSets, TLC

VARIABLES pc, fileExists, content, args, messages, view, seg_type, field_num,
          mi, li, out, exitCode, content2, messages2, out2

vars == <<pc, fileExists, content, args, messages, view, seg_type, field_num,
          mi, li, out, exitCode, content2, messages2, out2>>

\* The second file of PairSpec, its messages and its Structure output.
pairVars == <<content2, messages2, out2>>

(***************************************************************************)
(* Bounds and input pools                                                  *)
(***************************************************************************)

\* The largest number of newline-separated lines in an input file.
MaxLines == 2

\* The largest number of lines in each file of a pair compared by PairSpec.
MaxPairLines == 2

L_MSH == <<"M", "S", "H", "|", "^", "~", "\\", "&", "|", "A", "|", "B">>
L_PID == <<"P", "I", "D", "|", "1", "|", "|", "1", "2", "3", "4", "5", "^", "^", "^", "M", "R", "|", "|", "D", "o", "e", "^", "J", "o", "h", "n">>
L_BARE == <<"M", "S", "H">>
L_MSHSP == <<"M", "S", "H", " ", "|", "^", "~", "\\", "&", "|", "A">>
L_RXA == <<"R", "X", "A", "|", "x", "~", "y", "|", " ", "|", "a", "^">>
L_PIDSP == <<" ", "P", "I", "D", "|", "7", " ">>
L_RTF == <<"{", "\\", "r", "t", "f", "1", "\\", "p", "a", "r">>

LinePool == {L_MSH, L_PID, L_BARE, L_MSHSP, L_RXA, L_PIDSP, L_RTF}

\* Pairs of lines that differ only in the characters of their field values
\* (L_MSH and T_MSH, P_A and P_B), and one that differs from P_A in whether
\* its second field is blank.
T_MSH == <<"M", "S", "H", "|", "^", "~", "\\", "&", "|", "Z", "|", "Q">>
P_A == <<"P", "I", "D", "|", "1", "|", " ", "|", "x", "~", "y", "|", "1", "2", "^", "^", "M">>
P_B == <<"P", "I", "D", "|", "7", "|", " ", "|", "p", "~", "q", "|", "9", "8", "^", "^", "X">>
P_C == <<"P", "I", "D", "|", "1", "|", "z", "|", "x", "~", "y", "|", "1", "2", "^", "^", "M">>

PairPool == {L_MSH, T_MSH, P_A, P_B, P_C}

(***************************************************************************)
(* Python string primitives                                                *)
(***************************************************************************)

LowerSeq == <<"a", "b", "c", "d", "e", "f", "g", "h", "i", "j", "k", "l", "m", "n", "o", "p", "q", "r", "s", "t", "u", "v", "w", "x", "y", "z">>
UpperSeq == <<"A", "B", "C", "D", "E", "F", "G", "H", "I", "J", "K", "L", "M", "N", "O", "P", "Q", "R", "S", "T", "U", "V", "W", "X", "Y", "Z">>
DigitSeq == <<"0", "1", "2", "3", "4", "5", "6", "7", "8", "9">>

Lower == {LowerSeq[i] : i \in 1..26}
Digit == {DigitSeq[i] : i \in 1..10}
\* The characters str.strip() and the regex class \s remove.
WS == {" ", "\t", "\n", "\r", "\f"}

\* The text of a character sequence, as print() shows it.
RECURSIVE Str(_)
Str(s) == IF s = <<>> THEN "" ELSE s[1] \o Str(Tail(s))

\* c in s
Contains(s, c) == \E i \in 1..Len(s) : s[i] = c

\* s.startswith(p)
StartsWith(s, p) == Len(s) >= Len(p) /\ SubSeq(s, 1, Len(p)) = p

RECURSIVE LStrip(_)
LStrip(s) == IF s # <<>> /\ s[1] \in WS THEN LStrip(Tail(s)) ELSE s

RECURSIVE RStrip(_)
RStrip(s) == IF s # <<>> /\ s[Len(s)] \in WS THEN RStrip(SubSeq(s, 1, Len(s) - 1)) ELSE s

\* s.strip()
Strip(s) == RStrip(LStrip(s))

RECURSIVE SplitFrom(_, _, _, _, _)
SplitFrom(s, d, i, cur, acc) ==
    IF i > Len(s) THEN Append(acc, cur)
    ELSE IF s[i] = d THEN SplitFrom(s, d, i + 1, <<>>, Append(acc, cur))
    ELSE SplitFrom(s, d, i + 1, Append(cur, s[i]), acc)

\* s.split(d) for a one-character separator: empty parts are kept and the
\* result always has at least one part.
Split(s, d) == SplitFrom(s, d, 1, <<>>, <<>>)

RECURSIVE JoinStr(_, _)
\* sep.join(xs) for a sequence of strings
JoinStr(xs, sep) ==
    IF xs = <<>> THEN ""
    ELSE IF Len(xs) = 1 THEN xs[1]
    ELSE xs[1] \o sep \o JoinStr(Tail(xs), sep)

RECURSIVE JoinChars(_, _)
\* The file text whose lines are ls: the lines joined by the character sep.
JoinChars(ls, sep) ==
    IF ls = <<>> THEN <<>>
    ELSE IF Len(ls) = 1 THEN ls[1]
    ELSE ls[1] \o <<sep>> \o JoinChars(Tail(ls), sep)

RECURSIVE NatStr(_)
NatStr(n) == IF n < 10 THEN DigitSeq[n + 1] ELSE NatStr(n \div 10) \o DigitSeq[(n % 10) + 1]

\* f"{n}" for an integer
IntStr(n) == IF n < 0 THEN "-" \o NatStr(-n) ELSE NatStr(n)

\* c.upper() for one character
UpperChar(c) == IF \E i \in 1..26 : LowerSeq[i] = c
                THEN UpperSeq[CHOOSE i \in 1..26 : LowerSeq[i] = c]
                ELSE c

\* s.upper()
Upper(s) == [i \in 1..Len(s) |-> UpperChar(s[i])]

DigitVal(c) == (CHOOSE i \in 1..10 : DigitSeq[i] = c) - 1

RECURSIVE DigitsVal(_, _)
DigitsVal(s, acc) ==
    IF s = <<>> THEN acc
    ELSE IF s[1] = "_" THEN DigitsVal(Tail(s), acc)
    ELSE DigitsVal(Tail(s), 10 * acc + DigitVal(s[1]))

\* An unsigned literal int() accepts: digits, single underscores between them.
IsDigits(s) ==
    /\ s # <<>>
    /\ \A i \in 1..Len(s) : s[i] \in Digit \cup {"_"}
    /\ s[1] # "_" /\ s[Len(s)] # "_"
    /\ \A i \in 1..(Len(s) - 1) : ~(s[i] = "_" /\ s[i + 1] = "_")

\* int(s): surrounding whitespace and one sign are allowed; anything else
\* raises ValueError (ok = FALSE).
ParseInt(s) ==
    LET t == Strip(s)
        signed == t # <<>> /\ t[1] \in {"+", "-"}
        body == IF signed THEN Tail(t) ELSE t
    IN  IF IsDigits(body)
        THEN [ok |-> TRUE,
              val |-> IF signed /\ t[1] = "-" THEN 0 - DigitsVal(body, 0) ELSE DigitsVal(body, 0)]
        ELSE [ok |-> FALSE, val |-> 0]

\* Whether parts[k] raises IndexError for a Python list of length n.
IndexError(n, k) == k >= n \/ k < 0 - n

\* parts[k] with Python's indexing: 0-based, negative k counts from the end.
PyIndex(parts, k) == IF k >= 0 THEN parts[k + 1] ELSE parts[Len(parts) + k + 1]

(***************************************************************************)
(* extract_messages                                                        *)
(***************************************************************************)

SEGMENT_NAMES == {"MSH", "PID", "PV1", "PV2", "PD1", "NK1", "ORC", "OBR", "OBX",
                  "RXA", "RXR", "SPM", "NTE", "AL1", "DG1", "GT1", "IN1", "IN2",
                  "IN3", "TQ1", "TQ2", "SFT", "UAC", "ARV", "PRT", "EVN", "MRG",
                  "ROL", "FT1", "ACC", "UB1", "UB2", "RXE", "RXD", "RXG", "RXC"}

RtfPrefix == <<"{", "\\", "r", "t", "f">>

RECURSIVE RunEnd(_, _, _)
\* The first index at or after i whose character is not in class.
RunEnd(s, i, class) == IF i <= Len(s) /\ s[i] \in class THEN RunEnd(s, i + 1, class) ELSE i

RECURSIVE StripControls(_, _)
\* re.sub(r"\\[a-z]+\d*\s?", "", s), scanning from index i: a backslash
\* followed by letters is removed with its digits and one whitespace.
StripControls(s, i) ==
    IF i > Len(s) THEN <<>>
    ELSE IF s[i] = "\\" /\ i < Len(s) /\ s[i + 1] \in Lower
    THEN LET a == RunEnd(s, i + 1, Lower)
             d == RunEnd(s, a, Digit)
             e == IF d <= Len(s) /\ s[d] \in WS THEN d + 1 ELSE d
         IN  StripControls(s, e)
    ELSE <<s[i]>> \o StripControls(s, i + 1)

\* re.sub(r"[{}]", "", s)
StripBraces(s) == SelectSeq(s, LAMBDA c : c \notin {"{", "}"})

\* The content after the optional RTF strip.
StripRtf(c) == IF StartsWith(c, RtfPrefix) THEN StripBraces(StripControls(c, 1)) ELSE c

\* The leading token of a line, as the filter reads it.
LeadToken(line) == Strip(Split(line, "|")[1])

\* The filter's test on a stripped, non-empty line.
Retained(line) ==
    LET seg == Str(LeadToken(line))
    IN  seg \in SEGMENT_NAMES \/ (seg = "MSH" /\ Contains(line, "|"))

\* The list `lines`: the stripped, non-empty, recognised lines, in order.
RetainedLines(c) ==
    LET raw == Split(StripRtf(c), "\n")
        stripped == [i \in 1..Len(raw) |-> Strip(raw[i])]
    IN  SelectSeq(stripped, LAMBDA l : l # <<>> /\ Retained(l))

MshPipe == <<"M", "S", "H", "|">>

\* The test that opens a new message.
OpensMessage(line) == StartsWith(line, MshPipe)

RECURSIVE Group(_, _, _)
\* The grouping loop: current is the open message, acc the closed ones.
Group(lines, current, acc) ==
    IF lines = <<>>
    THEN IF current # <<>> THEN Append(acc, current) ELSE acc
    ELSE IF OpensMessage(lines[1])
    THEN Group(Tail(lines), <<lines[1]>>,
               IF current # <<>> THEN Append(acc, current) ELSE acc)
    ELSE Group(Tail(lines), Append(current, lines[1]), acc)

extract_messages(c) == Group(RetainedLines(c), <<>>, <<>>)

(***************************************************************************)
(* describe_component and the per-line bodies of the four views            *)
(***************************************************************************)

MSH_ID == <<"M", "S", "H">>

\* A count that takes every component, empty or not.
NonEmptyCount_All(ps) == Len(ps)

\* The number of non-empty strings in a sequence.
NonEmptyCount(ps) == Len(SelectSeq(ps, LAMBDA p : p # <<>>))

\* A describe_component that echoes a scalar value instead of its length.
describe_component_Leaky(value) ==
    IF value = <<>> THEN "(empty)"
    ELSE IF Contains(value, "^")
    THEN LET ps == Split(value, "^")
         IN  "(" \o IntStr(NonEmptyCount(ps)) \o "/" \o IntStr(Len(ps)) \o " components)"
    ELSE IF Contains(value, "~")
    THEN "(" \o IntStr(Len(Split(value, "~"))) \o " repeats)"
    ELSE "(" \o Str(value) \o ")"

describe_component(value) ==
    IF value = <<>> THEN "(empty)"
    ELSE IF Contains(value, "^")
    THEN LET ps == Split(value, "^")
         IN  "(" \o IntStr(NonEmptyCount(ps)) \o "/" \o IntStr(Len(ps)) \o " components)"
    ELSE IF Contains(value, "~")
    THEN "(" \o IntStr(Len(Split(value, "~"))) \o " repeats)"
    ELSE "(len=" \o IntStr(Len(value)) \o ")"

\* The views' test for the header's encoding-characters field: seg is the
\* first pipe-separated token as split, j the field index.
IsEncodingField(seg, j) == seg = MSH_ID /\ j = 1

\* The test "if val.strip()".
Populated(val) == Strip(val) # <<>>

\* The list `populated` of show_structure for one line.
PopulatedList(parts) ==
    LET seg == parts[1]
        idx == SelectSeq([j \in 1..(Len(parts) - 1) |-> j],
                         LAMBDA j : ~IsEncodingField(seg, j) /\ Populated(parts[j + 1]))
    IN  [k \in 1..Len(idx) |-> IntStr(idx[k]) \o describe_component(parts[idx[k] + 1])]

\* What show_structure prints for one line.
StructureLineOut(line) ==
    LET parts == Split(line, "|")
        total_fields == Len(parts) - 1
    IN  << "  " \o Str(parts[1]) \o " (" \o IntStr(total_fields) \o " fields) populated: "
           \o JoinStr(PopulatedList(parts), ", ") >>

\* " | ".join of the C<k>=<component> labels.
CompStr(val) ==
    LET cs == Split(val, "^")
    IN  JoinStr([k \in 1..Len(cs) |->
                    IF cs[k] # <<>> THEN "C" \o IntStr(k) \o "=" \o Str(cs[k])
                    ELSE "C" \o IntStr(k) \o "=(empty)"], " | ")

\* What show_values prints for field j of a line.
ValuesFieldOut(seg, j, val) ==
    IF IsEncodingField(seg, j) THEN << "    Field " \o IntStr(j) \o ": (encoding chars)" >>
    ELSE IF ~Populated(val) THEN <<>>
    ELSE IF Contains(val, "^") THEN << "    Field " \o IntStr(j) \o ": " \o CompStr(val) >>
    ELSE IF Contains(val, "~")
    THEN LET rs == Split(val, "~")
         IN  [r \in 1..Len(rs) |->
                "    Field " \o IntStr(j) \o "[" \o IntStr(r) \o "]: "
                \o (IF Contains(rs[r], "^") THEN CompStr(rs[r]) ELSE Str(rs[r]))]
    ELSE << "    Field " \o IntStr(j) \o ": " \o Str(val) >>

RECURSIVE ValuesFieldsFrom(_, _)
ValuesFieldsFrom(parts, j) ==
    IF j > Len(parts) - 1 THEN <<>>
    ELSE ValuesFieldOut(parts[1], j, parts[j + 1]) \o ValuesFieldsFrom(parts, j + 1)

\* `if segment_filter`: the option was given and is not the empty string.
Truthy(opt) == opt.some /\ opt.v # <<>>

\* What show_values prints for one line.
ValuesLineOut(line, segment_filter) ==
    LET parts == Split(line, "|")
    IN  IF Truthy(segment_filter) /\ parts[1] # segment_filter.v THEN <<>>
        ELSE << "  " \o Str(parts[1]) \o ":" >> \o ValuesFieldsFrom(parts, 1)

\* The Field view's test for a field the line does not have.
NotPresent(n, fnum) == fnum >= n

\* What show_field prints for one line; crash when parts[field_num] raises.
FieldLineOut(line, stype, fnum) ==
    LET parts == Split(line, "|")
        seg == Str(parts[1])
        head == "  " \o seg \o "-" \o IntStr(fnum) \o ": "
    IN  IF parts[1] # stype THEN [crash |-> FALSE, text |-> <<>>]
        ELSE IF NotPresent(Len(parts), fnum)
        THEN [crash |-> FALSE,
              text |-> << head \o "(not present, only " \o IntStr(Len(parts) - 1) \o " fields)" >>]
        ELSE IF IndexError(Len(parts), fnum) THEN [crash |-> TRUE, text |-> <<>>]
        ELSE LET val == PyIndex(parts, fnum)
             IN  IF ~Populated(val) THEN [crash |-> FALSE, text |-> << head \o "(empty)" >>]
                 ELSE IF Contains(val, "^")
                 THEN LET cs == Split(val, "^")
                      IN  [crash |-> FALSE,
                           text |-> << head \o Str(val) >> \o
                                    [k \in 1..Len(cs) |->
                                        "    ." \o IntStr(k) \o ": "
                                        \o (IF cs[k] # <<>> THEN Str(cs[k]) ELSE "(empty)")]]
                 ELSE IF Contains(val, "~")
                 THEN LET rs == Split(val, "~")
                      IN  [crash |-> FALSE,
                           text |-> << head \o "(" \o IntStr(Len(rs)) \o " repeats)" >> \o
                                    [r \in 1..Len(rs) |->
                                        "    [" \o IntStr(r) \o "]: " \o Str(rs[r])]]
                 ELSE [crash |-> FALSE, text |-> << head \o Str(val) >>]

Max(a, b) == IF a >= b THEN a ELSE b
Min(a, b) == IF a <= b THEN a ELSE b

\* The first index of the Verify view's context window.
context_start(fnum) == Max(1, fnum - 2)

\* A window that stops one field early.
context_end_Short(total, fnum) == Min(total + 1, fnum + 2)

\* One past the last index of the context window.
context_end(total, fnum) == Min(total + 1, fnum + 3)

\* "(empty)" for a blank value, else the value.
Display(v) == IF Populated(v) THEN Str(v) ELSE "(empty)"

\* One entry of context_parts.
ContextPart(parts, j, fnum) ==
    LET v == IF j < Len(parts) THEN parts[j + 1] ELSE <<>>
        marker == IF j = fnum THEN " <<< " ELSE ""
    IN  "    Field " \o IntStr(j) \o ": " \o Display(v) \o marker

\* The list context_parts.
ContextParts(parts, fnum) ==
    LET cs == context_start(fnum)
        ce == context_end(Len(parts) - 1, fnum)
    IN  [k \in 1..Max(0, ce - cs) |-> ContextPart(parts, cs + k - 1, fnum)]

\* A test against len(parts) instead of the field count.
BeyondEnd_LenParts(total, fnum) == fnum > total + 1

\* The Verify view's test for an index past the line's last field.
BeyondEnd(total, fnum) == fnum > total

\* What verify_field prints for one line; crash when parts[field_num] raises.
VerifyLineOut(line, stype, fnum) ==
    LET parts == Split(line, "|")
        seg == Str(parts[1])
        total == Len(parts) - 1
    IN  IF parts[1] # stype THEN [crash |-> FALSE, text |-> <<>>]
        ELSE IF BeyondEnd(total, fnum)
        THEN [crash |-> FALSE,
              text |-> << "  " \o seg \o ": has " \o IntStr(total) \o " fields, requested field "
                          \o IntStr(fnum) \o " is beyond end",
                          "  Need " \o IntStr(fnum - total) \o " more pipes to reach field "
                          \o IntStr(fnum) >>]
        ELSE IF IndexError(Len(parts), fnum) THEN [crash |-> TRUE, text |-> <<>>]
        ELSE LET val == PyIndex(parts, fnum)
             IN  [crash |-> FALSE,
                  text |-> << "  " \o seg \o " (" \o IntStr(total) \o " fields total), field "
                              \o IntStr(fnum) \o " = " \o Display(val),
                              "  Context:",
                              JoinStr(ContextParts(parts, fnum), "\n") >>]

\* The selector SEG.N: the try block of show_field and verify_field.
ParseSelector(field_spec) ==
    LET ps == Split(field_spec, ".")
    IN  IF Len(ps) # 2 THEN [ok |-> FALSE, seg |-> <<>>, num |-> 0]
        ELSE LET n == ParseInt(ps[2])
             IN  IF n.ok THEN [ok |-> TRUE, seg |-> Upper(ps[1]), num |-> n.val]
                 ELSE [ok |-> FALSE, seg |-> <<>>, num |-> 0]

(***************************************************************************)
(* Inputs                                                                  *)
(***************************************************************************)

\* The files of at most n lines drawn from the pool, joined by newlines.
Files(n) == UNION {{JoinChars(ls, "\n") : ls \in [1..k -> LinePool]} : k \in 0..n}

NoOpt == [some |-> FALSE, v |-> <<>>]
Some(s) == [some |-> TRUE, v |-> s]

SegPool == {<<"P", "I", "D">>, <<"r", "x", "a">>, <<"M", "S", "H">>}
NumPool == {<<"-", "7">>, <<"-", "1">>, <<"0">>, <<"1">>, <<"3">>, <<"5">>, <<"6">>,
            <<"8">>, <<"x">>}

\* Selector strings: SEG.N over the pools, and three that are not of that shape.
Selectors == {s \o <<".">> \o n : s \in SegPool, n \in NumPool}
             \cup {<<"P", "I", "D">>, <<"P", "I", "D", ".", "5", ".", "1">>, <<>>}

\* The parsed command lines: one flag each, and two with several flags.
ArgPool ==
    {[verify |-> Some(s), field |-> NoOpt, values |-> FALSE, segment |-> NoOpt] : s \in Selectors}
    \cup {[verify |-> NoOpt, field |-> Some(s), values |-> FALSE, segment |-> NoOpt] : s \in Selectors}
    \cup {[verify |-> NoOpt, field |-> NoOpt, values |-> TRUE, segment |-> f] :
             f \in {NoOpt, Some(<<"P", "I", "D">>), Some(<<"N", "K", "1">>)}}
    \cup {[verify |-> NoOpt, field |-> NoOpt, values |-> FALSE, segment |-> NoOpt],
          [verify |-> Some(<<"P", "I", "D", ".", "1">>), field |-> Some(<<"P", "I", "D", ".", "x">>),
           values |-> TRUE, segment |-> NoOpt],
          [verify |-> NoOpt, field |-> Some(<<"P", "I", "D", ".", "3">>),
           values |-> TRUE, segment |-> Some(<<"P", "I", "D">>)]}

\* args.file, as the error message names it.
file == "messages.hl7"

(***************************************************************************)
(* main                                                                    *)
(***************************************************************************)

Init ==
    /\ pc = "start"
    /\ fileExists \in BOOLEAN
    /\ content \in (IF fileExists THEN Files(MaxLines) ELSE {<<>>})
    /\ args \in ArgPool
    /\ messages = <<>>
    /\ view = "none"
    /\ seg_type = <<>>
    /\ field_num = 0
    /\ mi = 0
    /\ li = 0
    /\ out = <<>>
    /\ exitCode = 0
    /\ content2 = <<>>
    /\ messages2 = <<>>
    /\ out2 = <<>>

\* sys.exit(code) after printing text.
ExitWith(text, code) ==
    /\ out' = out \o text
    /\ exitCode' = code
    /\ pc' = "exit"

\* open(args.file) and f.read()
ReadFile ==
    /\ pc = "start"
    /\ IF fileExists
       THEN /\ pc' = "extract"
            /\ UNCHANGED <<out, exitCode>>
       ELSE ExitWith(<< "Error: file not found: " \o file >>, 1)
    /\ UNCHANGED <<fileExists, content, args, messages, view, seg_type, field_num,
                   mi, li, pairVars>>

\* messages = extract_messages(content), the empty check and the count line
Extract ==
    /\ pc = "extract"
    /\ messages' = extract_messages(content)
    /\ IF messages' = <<>>
       THEN ExitWith(<< "No HL7v2 messages found in file" >>, 1)
       ELSE /\ out' = out \o << "Found " \o IntStr(Len(messages')) \o " message(s)\n" >>
            /\ pc' = "dispatch"
            /\ UNCHANGED exitCode
    /\ UNCHANGED <<fileExists, content, args, view, seg_type, field_num, mi, li,
                   pairVars>>

\* The selector parse that opens show_field and verify_field.
BeginSelector(v, field_spec, example) ==
    LET sel == ParseSelector(field_spec)
    IN  /\ view' = v
        /\ IF sel.ok
           THEN /\ seg_type' = sel.seg
                /\ field_num' = sel.num
                /\ pc' = "loop"
                /\ UNCHANGED <<out, exitCode>>
           ELSE /\ ExitWith(<< "Error: invalid field spec '" \o Str(field_spec)
                               \o "'. Use format SEG.N (e.g., " \o example \o ")" >>, 1)
                /\ UNCHANGED <<seg_type, field_num>>
        /\ UNCHANGED <<fileExists, content, args, messages, mi, li, pairVars>>

\* if args.verify: verify_field(messages, args.verify)
BeginVerify ==
    /\ pc = "dispatch"
    /\ Truthy(args.verify)
    /\ BeginSelector("verify", args.verify.v, "RXA.20")

\* elif args.field: show_field(messages, args.field)
BeginField ==
    /\ pc = "dispatch"
    /\ ~Truthy(args.verify)
    /\ Truthy(args.field)
    /\ BeginSelector("field", args.field.v, "RXA.6")

\* elif args.values: show_values(messages, args.segment)
BeginValues ==
    /\ pc = "dispatch"
    /\ ~Truthy(args.verify)
    /\ ~Truthy(args.field)
    /\ args.values
    /\ view' = "values"
    /\ pc' = "loop"
    /\ UNCHANGED <<fileExists, content, args, messages, seg_type, field_num, mi, li,
                   out, exitCode, pairVars>>

\* else: show_structure(messages)
BeginStructure ==
    /\ pc = "dispatch"
    /\ ~Truthy(args.verify)
    /\ ~Truthy(args.field)
    /\ ~args.values
    /\ view' = "structure"
    /\ pc' = "loop"
    /\ UNCHANGED <<fileExists, content, args, messages, seg_type, field_num, mi, li,
                   out, exitCode, pairVars>>

\* The line a view prints before message i when there are several messages.
MessageHeader(v, i, n) ==
    IF n <= 1 THEN <<>>
    ELSE IF v \in {"structure", "values"}
    THEN << "=== Message " \o IntStr(i) \o " of " \o IntStr(n) \o " ===" >>
    ELSE << "--- Message " \o IntStr(i) \o " ---" >>

\* The empty print() that ends a message in the Structure and Values views.
MessageTrailer(v, n) ==
    IF n > 1 /\ v \in {"structure", "values"} THEN << "" >> ELSE <<>>

\* Whether the inner loop over the lines of message mi is exhausted.
MessageDone == IF mi = 0 THEN TRUE ELSE li = Len(messages[mi])

\* The outer loop moves to message mi + 1.
NextMessage ==
    /\ pc = "loop"
    /\ MessageDone
    /\ mi < Len(messages)
    /\ out' = out \o (IF mi >= 1 THEN MessageTrailer(view, Len(messages)) ELSE <<>>)
                  \o MessageHeader(view, mi + 1, Len(messages))
    /\ mi' = mi + 1
    /\ li' = 0
    /\ UNCHANGED <<pc, fileExists, content, args, messages, view, seg_type, field_num,
                   exitCode, pairVars>>

\* One iteration of a view's inner loop whose body printed r.text, or
\* raised an uncaught IndexError (r.crash): the interpreter then exits 1.
LineStep(r) ==
    /\ li' = li + 1
    /\ out' = out \o r.text
    /\ IF r.crash
       THEN pc' = "aborted" /\ exitCode' = 1
       ELSE UNCHANGED <<pc, exitCode>>
    /\ UNCHANGED <<fileExists, content, args, messages, view, seg_type, field_num,
                   mi, pairVars>>

\* The line the inner loop takes next.
NextLine == messages[mi][li + 1]

StructureLine ==
    /\ pc = "loop" /\ view = "structure" /\ ~MessageDone
    /\ LineStep([crash |-> FALSE, text |-> StructureLineOut(NextLine)])

ValuesLine ==
    /\ pc = "loop" /\ view = "values" /\ ~MessageDone
    /\ LineStep([crash |-> FALSE, text |-> ValuesLineOut(NextLine, args.segment)])

FieldLine ==
    /\ pc = "loop" /\ view = "field" /\ ~MessageDone
    /\ LineStep(FieldLineOut(NextLine, seg_type, field_num))

VerifyLine ==
    /\ pc = "loop" /\ view = "verify" /\ ~MessageDone
    /\ LineStep(VerifyLineOut(NextLine, seg_type, field_num))

\* The last message is done: the view returns and main ends with status 0.
Finish ==
    /\ pc = "loop"
    /\ MessageDone
    /\ mi = Len(messages)
    /\ out' = out \o MessageTrailer(view, Len(messages))
    /\ pc' = "exit"
    /\ exitCode' = 0
    /\ UNCHANGED <<fileExists, content, args, messages, view, seg_type, field_num,
                   mi, li, pairVars>>

Next ==
    \/ ReadFile
    \/ Extract
    \/ BeginVerify
    \/ BeginField
    \/ BeginValues
    \/ BeginStructure
    \/ NextMessage
    \/ StructureLine
    \/ ValuesLine
    \/ FieldLine
    \/ VerifyLine
    \/ Finish

Spec == Init /\ [][Next]_vars

(***************************************************************************)
(* show_structure on two files side by side                                *)
(***************************************************************************)

\* The files of at most n lines drawn from the pair pool.
PairFiles(n) == UNION {{JoinChars(ls, "\n") : ls \in [1..k -> PairPool]} : k \in 0..n}

RECURSIVE StructureLinesFrom(_, _)
\* What the inner loop of show_structure prints from line k of msg on.
StructureLinesFrom(msg, k) ==
    IF k > Len(msg) THEN <<>>
    ELSE StructureLineOut(msg[k]) \o StructureLinesFrom(msg, k + 1)

RECURSIVE StructureFrom(_, _)
\* What the outer loop of show_structure prints from message i on.
StructureFrom(msgs, i) ==
    IF i > Len(msgs) THEN <<>>
    ELSE MessageHeader("structure", i, Len(msgs))
         \o StructureLinesFrom(msgs[i], 1)
         \o MessageTrailer("structure", Len(msgs))
         \o StructureFrom(msgs, i + 1)

\* Everything show_structure(msgs) prints.
show_structure(msgs) == StructureFrom(msgs, 1)

PairInit ==
    /\ pc = "pair"
    /\ fileExists = TRUE
    /\ content \in PairFiles(MaxPairLines)
    /\ content2 \in PairFiles(MaxPairLines)
    /\ args = [verify |-> NoOpt, field |-> NoOpt, values |-> FALSE, segment |-> NoOpt]
    /\ messages = <<>>
    /\ messages2 = <<>>
    /\ view = "structure"
    /\ seg_type = <<>>
    /\ field_num = 0
    /\ mi = 0
    /\ li = 0
    /\ out = <<>>
    /\ out2 = <<>>
    /\ exitCode = 0

\* extract_messages on both files
PairExtract ==
    /\ pc = "pair"
    /\ messages' = extract_messages(content)
    /\ messages2' = extract_messages(content2)
    /\ pc' = "pairExtracted"
    /\ UNCHANGED <<fileExists, content, args, view, seg_type, field_num, mi, li,
                   out, exitCode, content2, out2>>

\* show_structure on both message lists
PairStructure ==
    /\ pc = "pairExtracted"
    /\ out' = show_structure(messages)
    /\ out2' = show_structure(messages2)
    /\ pc' = "pairDone"
    /\ UNCHANGED <<fileExists, content, args, messages, view, seg_type, field_num,
                   mi, li, exitCode, content2, messages2>>

PairNext ==
    \/ PairExtract
    \/ PairStructure

PairSpec == PairInit /\ [][PairNext]_vars

(***************************************************************************)
(* Properties                                                              *)
(***************************************************************************)

\* The segment id of a line: its first pipe-separated token.
SegId(line) == Split(line, "|")[1]

\* The number of fields of a line: its pipe-separated tokens less the id.
FieldCount(line) == Len(Split(line, "|")) - 1

\* Field j of a line, 1 <= j <= FieldCount(line).
FieldOf(line, j) == Split(line, "|")[j + 1]

\* The line the inner loop has just processed (li >= 1).
CurLine == messages[mi][li]

\* The main program has extracted at least one message.
Extracted == pc \in {"dispatch", "loop", "exit", "aborted"} /\ messages # <<>>

\* The run has ended.
Terminated == pc \in {"exit", "aborted"}

\* The number of retained lines whose leading token is the header code.
HeaderLineCount(c) ==
    Len(SelectSeq(RetainedLines(c), LAMBDA l : LeadToken(l) = MSH_ID))

\* C1: every extracted message is non-empty and its first line is a header
\* (MSH) segment line.
C1_MessagesStartWithHeader ==
    \A i \in 1..Len(messages) :
        Len(messages[i]) >= 1 /\ LeadToken(messages[i][1]) = MSH_ID

\* C2: the count printed in the "Found N message(s)" line equals the number
\* of extracted messages and the number of retained header-code lines.
C2_CountEqualsHeaderLines ==
    Extracted =>
        /\ out[1] = "Found " \o IntStr(HeaderLineCount(content)) \o " message(s)\n"
        /\ Len(messages) = HeaderLineCount(content)

\* What the Structure view may depend on: a character is a delimiter or
\* an opaque data character.
CharClass(c) == IF c \in {"|", "^", "~"} THEN c ELSE "x"

\* The segment id of a line and, for each field, the places of its
\* delimiters, its length, and whether it is blank.
LineShape(line) ==
    LET parts == Split(line, "|")
    IN  [seg |-> parts[1],
         fields |-> [j \in 1..(Len(parts) - 1) |->
                       [classes |-> [i \in 1..Len(parts[j + 1]) |-> CharClass(parts[j + 1][i])],
                        blank |-> ~Populated(parts[j + 1])]]]

Shape(msgs) == [i \in 1..Len(msgs) |-> [k \in 1..Len(msgs[i]) |-> LineShape(msgs[i][k])]]

\* C3: two message lists that agree on segment ids, delimiter positions and
\* the lengths and emptiness of fields and components give the same
\* Structure output, whatever the characters of their field values.
C3_StructureDependsOnShapeOnly ==
    (pc = "pairDone" /\ Shape(messages) = Shape(messages2)) => out = out2

\* Two lists of the same shape with different field values were rendered.
C3_Witness ==
    /\ pc = "pairDone"
    /\ Shape(messages) = Shape(messages2)
    /\ messages # messages2
    /\ Len(messages) >= 2
    /\ out = out2

\* The inner loop of the Verify view takes a matching line next.
VerifyMatch == VerifyLine /\ SegId(NextLine) = seg_type

\* C4: asked for field total + k (k >= 1) of a matching line, the Verify view
\* prints that the line has `total` fields and that k more pipes are needed,
\* and nothing else for that line.
C4_ShortfallReported ==
    [][(VerifyMatch /\ field_num > FieldCount(NextLine)) =>
          /\ out' = out \o
                << "  " \o Str(SegId(NextLine)) \o ": has " \o IntStr(FieldCount(NextLine))
                   \o " fields, requested field " \o IntStr(field_num) \o " is beyond end",
                   "  Need " \o IntStr(field_num - FieldCount(NextLine))
                   \o " more pipes to reach field " \o IntStr(field_num) >>
          /\ pc' = "loop"]_vars

\* The Verify view has just reported a shortfall of 3 pipes for PID.8 on
\* the five-field line L_PID.
C4_Witness ==
    /\ pc = "loop" /\ view = "verify" /\ li >= 1
    /\ CurLine = L_PID
    /\ SegId(CurLine) = seg_type
    /\ field_num = FieldCount(CurLine) + 3
    /\ out[Len(out)] = "  Need 3 more pipes to reach field 8"

\* C5: for every well-formed selector the Field and Verify views process
\* every line of every message and end normally.
C5_ViewsFinishNormally ==
    (Terminated /\ view \in {"field", "verify"} /\ mi >= 1) =>
        /\ pc = "exit"
        /\ exitCode = 0
        /\ mi = Len(messages)
        /\ li = Len(messages[mi])

\* The sub-parts the Field view lists under a value.
C6_SubParts(val) ==
    IF Contains(val, "^")
    THEN LET cs == Split(val, "^")
         IN  [k \in 1..Len(cs) |->
                "    ." \o IntStr(k) \o ": " \o (IF cs[k] # <<>> THEN Str(cs[k]) ELSE "(empty)")]
    ELSE IF Contains(val, "~")
    THEN LET rs == Split(val, "~")
         IN  [r \in 1..Len(rs) |-> "    [" \o IntStr(r) \o "]: " \o Str(rs[r])]
    ELSE <<>>

\* The one outcome the claim gives for field n >= 1 of a line.
C6_Outcome(line, n) ==
    LET head == "  " \o Str(SegId(line)) \o "-" \o IntStr(n) \o ": "
    IN  IF n > FieldCount(line)
        THEN << head \o "(not present, only " \o IntStr(FieldCount(line)) \o " fields)" >>
        ELSE IF ~Populated(FieldOf(line, n)) THEN << head \o "(empty)" >>
        ELSE << head \o Str(FieldOf(line, n)) >> \o C6_SubParts(FieldOf(line, n))

\* C6: for every matching line the Field view prints exactly one outcome:
\* "not present" with the field count, "(empty)", or the literal value
\* followed by its sub-parts.
C6_OneOutcomePerLine ==
    [][(FieldLine /\ SegId(NextLine) = seg_type) =>
          /\ pc' = "loop"
          /\ Len(out') > Len(out)
          /\ (field_num >= 1 => out' = out \o C6_Outcome(NextLine, field_num))]_vars

\* The populated-field descriptions of a line with field 1 left out.
C7_PopulatedAfterFirst(parts) ==
    LET idx == SelectSeq([j \in 1..(Len(parts) - 1) |-> j],
                         LAMBDA j : j >= 2 /\ Populated(parts[j + 1]))
    IN  [k \in 1..Len(idx) |-> IntStr(idx[k]) \o describe_component(parts[idx[k] + 1])]

\* A line the extractor kept because its leading token is the header code.
HeaderLine(line) == LeadToken(line) = MSH_ID

\* C7: for every retained header line, the Structure view leaves field 1 out
\* of the populated fields and the Values view prints "(encoding chars)" for
\* it, never its text.
C7_EncodingFieldHidden ==
    [][/\ (StructureLine /\ HeaderLine(NextLine)) =>
            out' = out \o
                << "  " \o Str(SegId(NextLine)) \o " (" \o IntStr(FieldCount(NextLine))
                   \o " fields) populated: "
                   \o JoinStr(C7_PopulatedAfterFirst(Split(NextLine, "|")), ", ") >>
       /\ (ValuesLine /\ HeaderLine(NextLine) /\ FieldCount(NextLine) >= 1
             /\ Len(out') > Len(out)) =>
            out'[Len(out) + 2] = "    Field 1: (encoding chars)"]_vars

\* The runs the claim lists as failing: no file, no message, or a selected
\* Field or Verify selector that is not SEG.N.
C8_ErrorCase ==
    \/ ~fileExists
    \/ extract_messages(content) = <<>>
    \/ Truthy(args.verify) /\ ~ParseSelector(args.verify.v).ok
    \/ ~Truthy(args.verify) /\ Truthy(args.field) /\ ~ParseSelector(args.field.v).ok

\* C8: a run ends with status 1 and no view output exactly in the error
\* cases; every other run renders one view and ends with status 0.
C8_ExitStatus ==
    Terminated =>
        IF C8_ErrorCase
        THEN exitCode = 1 /\ mi = 0
        ELSE exitCode = 0 /\ pc = "exit" /\ mi = Len(messages)
             /\ view \in {"structure", "values", "field", "verify"}

\* C9 as stated: the Structure view prints, for PID|1||12345^^^MR||Doe^John,
\* PID (4 fields) populated: 1(len=5), 3(3/4 components), 5(2/2 components).
C9_Original ==
    [][(StructureLine /\ NextLine = L_PID) =>
          \/ out' = out \o << "  PID (4 fields) populated: 1(len=5), 3(3/4 components), 5(2/2 components)" >>
          \/ out' = out \o << "PID (4 fields) populated: 1(len=5), 3(3/4 components), 5(2/2 components)" >>]_vars

\* C9, amended: the Structure view prints, for PID|1||12345^^^MR||Doe^John,
\* PID (5 fields) populated: 1(len=1), 3(2/4 components), 5(2/2 components):
\* six pipe-separated tokens less the identifier, each populated field with
\* its length or its non-empty components over all its components.
C9_StructureOfPidLine ==
    [][(StructureLine /\ NextLine = L_PID) =>
          out' = out \o << "  PID (5 fields) populated: 1(len=1), 3(2/4 components), 5(2/2 components)" >>]_vars

\* The Structure view has just printed the line L_PID.
C9_Witness ==
    /\ pc = "loop" /\ view = "structure" /\ li >= 1
    /\ CurLine = L_PID
    /\ out[Len(out)] = "  PID (5 fields) populated: 1(len=1), 3(2/4 components), 5(2/2 components)"

\* The context window the claim gives: fields max(1, n-2) .. min(total, n+2)
\* in ascending order, the marker on field n alone.
C10_Window(line, n) ==
    LET lo == Max(1, n - 2)
        hi == Min(FieldCount(line), n + 2)
    IN  [k \in 1..(hi - lo + 1) |->
            "    Field " \o IntStr(lo + k - 1) \o ": " \o Display(FieldOf(line, lo + k - 1))
            \o (IF lo + k - 1 = n THEN " <<< " ELSE "")]

\* C10: for a matching line and 1 <= N <= total, the Verify view's context
\* window lists exactly the fields max(1, N-2) .. min(total, N+2) in
\* ascending order and marks field N and no other.
C10_ContextWindow ==
    [][(VerifyMatch /\ 1 <= field_num /\ field_num <= FieldCount(NextLine)) =>
          /\ Len(out') = Len(out) + 3
          /\ out'[Len(out) + 2] = "  Context:"
          /\ out'[Len(out) + 3] = JoinStr(C10_Window(NextLine, field_num), "\n")]_vars

\* The Verify view has just printed the window of PID.5 on the five-field
\* line L_PID: fields 3 to 5, clamped at the end, field 5 marked.
C10_Witness ==
    /\ pc = "loop" /\ view = "verify" /\ li >= 1
    /\ CurLine = L_PID
    /\ SegId(CurLine) = seg_type
    /\ field_num = 5
    /\ out[Len(out)] = "    Field 3: 12345^^^MR\n    Field 4: (empty)\n    Field 5: Doe^John <<< "

====
